---- MODULE Spec2Model ----
(***************************************************************************)
(* Model of package build (standard.go): DefineTasks, its options, the     *)
(* task registry it fills and the actions of the tasks it registers.       *)
(*                                                                         *)
(* A path is the sequence of its "/"-separated elements: "dist/cov" is     *)
(* <<"dist", "cov">>, "./out" is <<".", "out">> and the empty string is    *)
(* <<>>.  Command lines are strings, built as fmt.Sprintf builds them.     *)
(***************************************************************************)
EXTENDS Integers, Sequences, FiniteSets, TLC

VARIABLES
    pc,               \* "setup" before DefineTasks is called, "defined" after
    opts,             \* the options the caller has built: DefineTasks' argument
    conf,             \* DefineTasks' conf, captured by the test action
    statOk,           \* whether os.Stat(build/go.mod) returned a nil error in DefineTasks
    golangciTargets,  \* DefineTasks' golangciTargets, captured by the Go actions
    tasks,            \* goyek's registry: task name -> defined task
    formatTasks,      \* the package's format bucket
    lintTasks,        \* the package's lint bucket
    generateTasks,    \* the package's generate bucket
    panicked,         \* goyek.Define panicked during DefineTasks
    files,            \* regular files of the working directory
    dirs,             \* directories of the working directory (resolved paths)
    lastRun           \* the last task action the runner ran, with what it did

vars == <<pc, opts, conf, statOk, golangciTargets, tasks, formatTasks, lintTasks,
          generateTasks, panicked, files, dirs, lastRun>>

-----------------------------------------------------------------------------
(* Bounds *)

\* Registration alone (SpecDefine): the caller passes at most MaxOpts options to
\* DefineTasks, whose ExcludeTasks options name at most MaxNames tasks in total.
MaxOpts == 2

MaxNames == 3

\* The whole life of the tasks (Spec): at most MaxRunOpts options, naming at
\* most MaxRunNames tasks in total.
MaxRunOpts == 1

MaxRunNames == 1

-----------------------------------------------------------------------------
(* Names *)

FormatLeaves == {"format-go", "format-markdown", "format-yaml"}

LintLeaves == {"lint-go", "lint-markdown", "lint-yaml"}

LeafNames == FormatLeaves \cup LintLeaves

MetaNames == {"format", "lint", "generate", "test", "check"}

\* Names that are no task of the catalog.
UnknownNames == {"lint-toml"}

\* The names a caller may pass to ExcludeTasks: in Spec any of them, in
\* SpecDefine, which passes more of them, the leaves, one of the other tasks
\* and the unknown name.
AllNames == LeafNames \cup MetaNames \cup UnknownNames

ExcludeNames == LeafNames \cup {"lint"} \cup UnknownNames

\* The paths a caller may pass to ArtifactsPath: "dist", "./out", "" and
\* "dist/cov" in Spec, the first two in SpecDefine.
ArtifactPaths == {<<"dist">>, <<".", "out">>, <<>>, <<"dist", "cov">>}

DefinePaths == {<<"dist">>, <<".", "out">>}

verGolangCILint == "verGolangCILint"

verGoPrettier == "verGoPrettier"

verGoYamllint == "verGoYamllint"

-----------------------------------------------------------------------------
(* Strings and paths *)

\* strings.Join
RECURSIVE Join(_, _)
Join(elems, sep) ==
    IF elems = <<>> THEN ""
    ELSE IF Len(elems) = 1 THEN elems[1]
    ELSE elems[1] \o sep \o Join(Tail(elems), sep)

\* filepath.Clean on a relative path without "..": drops "." and empty
\* elements; the empty result is ".".
RECURSIVE DropDots(_)
DropDots(p) ==
    IF p = <<>> THEN <<>>
    ELSE IF p[1] \in {".", ""} THEN DropDots(Tail(p))
    ELSE <<p[1]>> \o DropDots(Tail(p))

Clean(p) == IF DropDots(p) = <<>> THEN <<".">> ELSE DropDots(p)

\* filepath.Join(dir, name): empty elements are ignored, the result is Cleaned.
FilepathJoin(dir, name) == Clean(dir \o <<name>>)

\* The string of a path.
PathString(p) == Join(p, "/")

\* The directory the operating system resolves a relative path to, as the
\* sequence of directory names below the working directory.
Resolve(p) == DropDots(p)

Marker == <<"build", "go.mod">>

-----------------------------------------------------------------------------
(* config and Option *)

DefaultConf == [artifactsPath |-> <<"out">>, excludeTasks |-> <<>>]

\* A faulty excluded: the exclusions are never consulted.
excludedMutAlwaysFalse(c, task) == FALSE

\* A faulty excluded: strings.HasPrefix(task, e) in place of task == e, on
\* the names of the catalog.
excludedMutPrefix(c, task) ==
    \E i \in 1..Len(c.excludeTasks) :
        \/ c.excludeTasks[i] = task
        \/ c.excludeTasks[i] = "format" /\ task \in FormatLeaves
        \/ c.excludeTasks[i] = "lint" /\ task \in LintLeaves

\* config.excluded: slices.Contains(c.excludeTasks, task)
excluded(c, task) == \E i \in 1..Len(c.excludeTasks) : c.excludeTasks[i] = task

\* ArtifactsPath(path)
ArtifactsPath(path) == [kind |-> "artifactsPath", path |-> path, tasks |-> <<>>]

\* ExcludeTasks(task...)
ExcludeTasks(task) == [kind |-> "excludeTasks", path |-> <<>>, tasks |-> task]

\* A faulty excludeTasks.apply: assigns the names instead of appending them.
applyMutOverwriteExcludes(o, c) ==
    IF o.kind = "artifactsPath"
    THEN [c EXCEPT !.artifactsPath = o.path]
    ELSE [c EXCEPT !.excludeTasks = o.tasks]

\* artifactsPath.apply and excludeTasks.apply
apply(o, c) ==
    IF o.kind = "artifactsPath"
    THEN [c EXCEPT !.artifactsPath = o.path]
    ELSE [c EXCEPT !.excludeTasks = @ \o o.tasks]

\* for _, o := range opts { o.apply(&conf) }
RECURSIVE ApplyAll(_, _)
ApplyAll(os, c) ==
    IF os = <<>> THEN c ELSE ApplyAll(Tail(os), apply(os[1], c))

-----------------------------------------------------------------------------
(* The registry *)

\* A faulty catalog: the registration of format-yaml is missing.
CatalogMutNoFormatYaml ==
    << [name |-> "format-go",       family |-> "format"],
       [name |-> "lint-go",         family |-> "lint"],
       [name |-> "format-markdown", family |-> "format"],
       [name |-> "lint-markdown",   family |-> "lint"],
       [name |-> "lint-yaml",       family |-> "lint"] >>

\* The six conditional registrations of DefineTasks, in the order of the code.
Catalog ==
    << [name |-> "format-go",       family |-> "format"],
       [name |-> "lint-go",         family |-> "lint"],
       [name |-> "format-markdown", family |-> "format"],
       [name |-> "lint-markdown",   family |-> "lint"],
       [name |-> "format-yaml",     family |-> "format"],
       [name |-> "lint-yaml",       family |-> "lint"] >>

\* The state DefineTasks writes: goyek's registry and the package's buckets.
EmptyRegistry ==
    [tasks |-> <<>>, formatTasks |-> <<>>, lintTasks |-> <<>>,
     generateTasks |-> <<>>, panicked |-> FALSE]

\* goyek.Task{Name, Parallel, Action, Deps}; action names the closure, "" is no action.
Task(name, parallel, action, deps) ==
    [name |-> name, parallel |-> parallel, action |-> action, deps |-> deps]

\* goyek.Define: registers the task under its name and panics on a name that
\* is already defined.
Define(reg, t) ==
    IF t.name \in DOMAIN reg.tasks
    THEN [reg EXCEPT !.panicked = TRUE]
    ELSE [reg EXCEPT !.tasks = (t.name :> t) @@ @]

\* RegisterFormatTask: appends the task to the format bucket.
RegisterFormatTask(reg, name) == [reg EXCEPT !.formatTasks = Append(@, name)]

\* RegisterLintTask: appends the task to the lint bucket.
RegisterLintTask(reg, name) == [reg EXCEPT !.lintTasks = Append(@, name)]

\* A faulty registration: every leaf goes through RegisterFormatTask.
RegisterLeafMutAllFormat(reg, e) ==
    RegisterFormatTask(Define(reg, Task(e.name, TRUE, e.name, <<>>)), e.name)

\* Register<Family>Task(goyek.Define(goyek.Task{Name: ..., Parallel: true, Action: ...}))
RegisterLeaf(reg, e) ==
    IF e.family = "format"
    THEN RegisterFormatTask(Define(reg, Task(e.name, TRUE, e.name, <<>>)), e.name)
    ELSE RegisterLintTask(Define(reg, Task(e.name, TRUE, e.name, <<>>)), e.name)

\* if !conf.excluded(name) { Register...Task(goyek.Define(...)) }, six times.
RECURSIVE DefineLeaves(_, _, _)
DefineLeaves(c, i, reg) ==
    IF i > Len(Catalog) THEN reg
    ELSE DefineLeaves(c, i + 1,
            IF excluded(c, Catalog[i].name) THEN reg ELSE RegisterLeaf(reg, Catalog[i]))

\* Faulty unconditional registrations: each guarded by conf.excluded.
DefineMetaMutExcludable(c, reg) ==
    LET Def(r, t) == IF excluded(c, t.name) THEN r ELSE Define(r, t)
        r1 == Def(reg, Task("format", FALSE, "", reg.formatTasks))
        r2 == Def(r1, Task("lint", FALSE, "", reg.lintTasks))
        r3 == Def(r2, Task("generate", FALSE, "", reg.generateTasks))
        r4 == Def(r3, Task("test", FALSE, "test", <<>>))
    IN  Def(r4, Task("check", FALSE, "", <<"lint", "test">>))

\* Faulty unconditional registrations: check depends on format too.
DefineMetaMutCheckFormats(c, reg) ==
    LET r1 == Define(reg, Task("format", FALSE, "", reg.formatTasks))
        r2 == Define(r1, Task("lint", FALSE, "", reg.lintTasks))
        r3 == Define(r2, Task("generate", FALSE, "", reg.generateTasks))
        r4 == Define(r3, Task("test", FALSE, "test", <<>>))
    IN  Define(r4, Task("check", FALSE, "", <<"format", "lint", "test">>))

\* The five unconditional goyek.Define calls: format, lint, generate, test, check.
DefineMeta(c, reg) ==
    LET r1 == Define(reg, Task("format", FALSE, "", reg.formatTasks))
        r2 == Define(r1, Task("lint", FALSE, "", reg.lintTasks))
        r3 == Define(r2, Task("generate", FALSE, "", reg.generateTasks))
        r4 == Define(r3, Task("test", FALSE, "test", <<>>))
    IN  Define(r4, Task("check", FALSE, "", <<"lint", "test">>))

\* golangciTargets, from the result of os.Stat(filepath.Join("build", "go.mod")).
Targets(errIsNil) ==
    IF errIsNil THEN Append(<<"./...">>, "./build") ELSE <<"./...">>

\* What DefineTasks(os...) leaves behind when os.Stat's error is nil or not.
DefineTasksResult(os, errIsNil) ==
    LET c == ApplyAll(os, DefaultConf)
    IN  [conf |-> c,
         golangciTargets |-> Targets(errIsNil),
         reg |-> DefineMeta(c, DefineLeaves(c, 1, EmptyRegistry))]

-----------------------------------------------------------------------------
(* The file system *)

\* os.Stat(filepath.Join("build", "go.mod")) returns a nil error.
StatMarkerOk(fs) == Marker \in fs

Prefixes(d) == {SubSeq(d, 1, k) : k \in 1..Len(d)}

\* os.MkdirAll(p, 0o755) on directories ds and files fs: the outcomes it can
\* have.  It succeeds without a change on an existing directory, fails on the
\* empty path and below a regular file, and otherwise creates the missing
\* directories from the top; any of the creations may fail (permissions, a
\* full disk), which leaves the directories created before it.
MkdirAll(p, ds, fs) ==
    LET d == Resolve(p) IN
    IF p = <<>> THEN {[ok |-> FALSE, existed |-> FALSE, dirs |-> ds]}
    ELSE IF d = <<>> \/ d \in ds THEN {[ok |-> TRUE, existed |-> TRUE, dirs |-> ds]}
    ELSE IF Prefixes(d) \cap fs # {} THEN {[ok |-> FALSE, existed |-> FALSE, dirs |-> ds]}
    ELSE {[ok |-> TRUE, existed |-> FALSE, dirs |-> ds \cup Prefixes(d)]}
         \cup {[ok |-> FALSE, existed |-> FALSE, dirs |-> ds \cup Prefixes(SubSeq(d, 1, k))] :
                 k \in 0..(Len(d) - 1)}

-----------------------------------------------------------------------------
(* The actions of the tasks *)

\* What an action did, in order: a call of os.MkdirAll, a.Errorf or cmd.Exec.
MkdirEvent(p, m) ==
    [op |-> "MkdirAll", path |-> p, cmd |-> "", ok |-> m.ok, existed |-> m.existed]

ErrorfEvent == [op |-> "Errorf", path |-> <<>>, cmd |-> "", ok |-> FALSE, existed |-> FALSE]

ExecEvent(cmd, ok) == [op |-> "Exec", path |-> <<>>, cmd |-> cmd, ok |-> ok, existed |-> FALSE]

NoRun == [task |-> "", log |-> <<>>]

\* Faulty closures: build/go.mod is probed when the action runs.
GoTargetsMutProbeAtRun == Targets(StatMarkerOk(files))

\* The golangciTargets the closures of format-go and lint-go read: the
\* variable of DefineTasks they captured.
GoTargets == golangciTargets

GolangciLint == "go run github.com/golangci/golangci-lint/cmd/golangci-lint@"

Prettier == "go run github.com/wasilibs/go-prettier/cmd/prettier@"

Yamllint == "go run github.com/wasilibs/go-yamllint/cmd/yamllint@"

\* The command lines the action of a leaf task passes to cmd.Exec, in order.
LeafCommands(name, targets) ==
    CASE name = "format-go" ->
           << GolangciLint \o verGolangCILint \o " run --fix --timeout=20m "
              \o Join(targets, " ") >>
      [] name = "lint-go" ->
           << GolangciLint \o verGolangCILint \o " run --timeout=20m "
              \o Join(targets, " ") >>
      [] name = "format-markdown" ->
           << Prettier \o verGoPrettier \o " --no-error-on-unmatched-pattern --write '**/*.md'" >>
      [] name = "lint-markdown" ->
           << Prettier \o verGoPrettier \o " --no-error-on-unmatched-pattern --check '**/*.md'" >>
      [] name = "format-yaml" ->
           << Prettier \o verGoPrettier
              \o " --no-error-on-unmatched-pattern --write '**/*.yaml' '**/*.yml'" >>
      [] name = "lint-yaml" ->
           << Prettier \o verGoPrettier
              \o " --no-error-on-unmatched-pattern --check '**/*.yaml' '**/*.yml'",
              Yamllint \o verGoYamllint \o " ." >>

\* A faulty test action: it creates "out" whatever the artifactsPath.
TestMkdirPathMutOut(c) == <<"out">>

\* The path the test action passes to os.MkdirAll.
TestMkdirPath(c) == c.artifactsPath

\* filepath.Join(conf.artifactsPath, "coverage.txt")
CoverProfile(c) == FilepathJoin(c.artifactsPath, "coverage.txt")

\* The command line of the test action.
TestCommand(c) ==
    "go test -coverprofile=" \o PathString(CoverProfile(c))
    \o " -covermode=atomic -v -timeout=20m ./..."

\* A faulty test action: no return after a.Errorf.
TestLogMutNoReturn(c, m, execOk) ==
    IF ~m.ok
    THEN <<MkdirEvent(TestMkdirPath(c), m), ErrorfEvent, ExecEvent(TestCommand(c), execOk)>>
    ELSE <<MkdirEvent(TestMkdirPath(c), m), ExecEvent(TestCommand(c), execOk)>>

\* The test action, given the outcome m of os.MkdirAll and the outcome of the
\* command: if err != nil { a.Errorf(...); return }; cmd.Exec(...).
TestLog(c, m, execOk) ==
    IF ~m.ok
    THEN <<MkdirEvent(TestMkdirPath(c), m), ErrorfEvent>>
    ELSE <<MkdirEvent(TestMkdirPath(c), m), ExecEvent(TestCommand(c), execOk)>>

\* The task of a run is marked failed: a.Errorf was called, or cmd.Exec
\* reported a failing command.
Failed(run) ==
    \E i \in 1..Len(run.log) :
        \/ run.log[i].op = "Errorf"
        \/ run.log[i].op = "Exec" /\ ~run.log[i].ok

-----------------------------------------------------------------------------
(* The state machine *)

Init ==
    /\ pc = "setup"
    /\ opts = <<>>
    /\ conf = DefaultConf
    /\ statOk = FALSE
    /\ golangciTargets = <<>>
    /\ tasks = <<>>
    /\ formatTasks = <<>>
    /\ lintTasks = <<>>
    /\ generateTasks = <<>>
    /\ panicked = FALSE
    /\ files = {}
    /\ dirs = {<<"build">>}
    /\ lastRun = NoRun

\* The number of names the ExcludeTasks options of os hold.
RECURSIVE NamesIn(_)
NamesIn(os) == IF os = <<>> THEN 0 ELSE Len(os[1].tasks) + NamesIn(Tail(os))

\* The caller builds one more option, of at most maxOpts, with ArtifactsPath(path).
CallArtifactsPath(maxOpts, paths) ==
    /\ pc = "setup"
    /\ Len(opts) < maxOpts
    /\ \E path \in paths : opts' = Append(opts, ArtifactsPath(path))
    /\ UNCHANGED <<pc, conf, statOk, golangciTargets, tasks, formatTasks, lintTasks,
                   generateTasks, panicked, files, dirs, lastRun>>

\* The caller builds one more option, of at most maxOpts, with
\* ExcludeTasks(task...); the options name at most maxNames tasks in total.
CallExcludeTasks(maxOpts, maxNames, names) ==
    /\ pc = "setup"
    /\ Len(opts) < maxOpts
    /\ \E n \in 0..(maxNames - NamesIn(opts)) :
         \E task \in [1..n -> names] : opts' = Append(opts, ExcludeTasks(task))
    /\ UNCHANGED <<pc, conf, statOk, golangciTargets, tasks, formatTasks, lintTasks,
                   generateTasks, panicked, files, dirs, lastRun>>

\* build/go.mod is created.
TouchMarker ==
    /\ Marker \notin files
    /\ files' = files \cup {Marker}
    /\ UNCHANGED <<pc, opts, conf, statOk, golangciTargets, tasks, formatTasks, lintTasks,
                   generateTasks, panicked, dirs, lastRun>>

\* build/go.mod is removed.
RemoveMarker ==
    /\ Marker \in files
    /\ files' = files \ {Marker}
    /\ UNCHANGED <<pc, opts, conf, statOk, golangciTargets, tasks, formatTasks, lintTasks,
                   generateTasks, panicked, dirs, lastRun>>

\* DefineTasks(opts...), called once.
DefineTasks ==
    /\ pc = "setup"
    /\ LET r == DefineTasksResult(opts, StatMarkerOk(files)) IN
         /\ conf' = r.conf
         /\ statOk' = StatMarkerOk(files)
         /\ golangciTargets' = r.golangciTargets
         /\ tasks' = r.reg.tasks
         /\ formatTasks' = r.reg.formatTasks
         /\ lintTasks' = r.reg.lintTasks
         /\ generateTasks' = r.reg.generateTasks
         /\ panicked' = r.reg.panicked
    /\ pc' = "defined"
    /\ UNCHANGED <<opts, files, dirs, lastRun>>

\* The runner runs the action of a registered leaf task: one cmd.Exec per
\* command line, each of which may pass or fail.
RunLeaf ==
    /\ pc = "defined"
    /\ ~panicked
    /\ \E name \in (DOMAIN tasks) \cap LeafNames :
         LET cmds == LeafCommands(tasks[name].action,
                                  IF name \in {"format-go", "lint-go"} THEN GoTargets ELSE <<>>)
         IN  \E oks \in [1..Len(cmds) -> BOOLEAN] :
               lastRun' = [task |-> name,
                           log |-> [i \in 1..Len(cmds) |-> ExecEvent(cmds[i], oks[i])]]
    /\ UNCHANGED <<pc, opts, conf, statOk, golangciTargets, tasks, formatTasks, lintTasks,
                   generateTasks, panicked, files, dirs>>

\* The runner runs the action of the test task.
RunTest ==
    /\ pc = "defined"
    /\ ~panicked
    /\ "test" \in DOMAIN tasks
    /\ \E m \in MkdirAll(TestMkdirPath(conf), dirs, files) :
         \E execOk \in BOOLEAN :
           /\ lastRun' = [task |-> "test", log |-> TestLog(conf, m, execOk)]
           /\ dirs' = m.dirs
    /\ UNCHANGED <<pc, opts, conf, statOk, golangciTargets, tasks, formatTasks, lintTasks,
                   generateTasks, panicked, files>>

\* The whole life: the caller builds the options and calls DefineTasks, the
\* runner runs the actions, build/go.mod comes and goes.
Next ==
    \/ CallArtifactsPath(MaxRunOpts, ArtifactPaths)
    \/ CallExcludeTasks(MaxRunOpts, MaxRunNames, AllNames)
    \/ TouchMarker
    \/ RemoveMarker
    \/ DefineTasks
    \/ RunLeaf
    \/ RunTest

Spec == Init /\ [][Next]_vars

\* Registration alone, on more options.
NextDefine ==
    \/ CallArtifactsPath(MaxOpts, DefinePaths)
    \/ CallExcludeTasks(MaxOpts, MaxNames, ExcludeNames)
    \/ DefineTasks

SpecDefine == Init /\ [][NextDefine]_vars

-----------------------------------------------------------------------------
(* Properties *)

Range(s) == {s[i] : i \in 1..Len(s)}

\* The names of all ExcludeTasks options of os.
RECURSIVE NameSet(_)
NameSet(os) == IF os = <<>> THEN {} ELSE Range(os[1].tasks) \cup NameSet(Tail(os))

\* The path of the last ArtifactsPath option of os, "out" if there is none.
RECURSIVE LastPath(_)
LastPath(os) ==
    IF os = <<>> THEN <<"out">>
    ELSE IF os[Len(os)].kind = "artifactsPath" THEN os[Len(os)].path
    ELSE LastPath(SubSeq(os, 1, Len(os) - 1))

\* One enumeration of a set, without repetition.
RECURSIVE SetToSeq(_)
SetToSeq(S) ==
    IF S = {} THEN <<>>
    ELSE LET x == CHOOSE y \in S : TRUE IN <<x>> \o SetToSeq(S \ {x})

\* os without the names that are no leaf task.
RECURSIVE StripNonLeaves(_)
StripNonLeaves(os) ==
    IF os = <<>> THEN <<>>
    ELSE <<[os[1] EXCEPT !.tasks = SelectSeq(@, LAMBDA n : n \in LeafNames)]>>
         \o StripNonLeaves(Tail(os))

\* The dependency list of a registered task, as a set.
DepsOf(name) == IF name \in DOMAIN tasks THEN Range(tasks[name].deps) ELSE {}

\* The tasks reachable from the tasks of S over at least one dependency edge.
RECURSIVE ReachFrom(_, _)
ReachFrom(S, k) ==
    LET next == UNION {DepsOf(n) : n \in S}
    IN  IF k = 0 THEN {} ELSE next \cup ReachFrom(next, k - 1)

Closure(name) == ReachFrom({name}, Cardinality(DOMAIN tasks))

Defined == pc = "defined"

\* C1: a leaf task named in the exclusions is, after DefineTasks, in neither
\* the registry, nor a bucket, nor the dependency list of format or lint.
C1_ExcludedLeafAbsent ==
    Defined =>
        \A n \in LeafNames \cap NameSet(opts) :
            /\ n \notin DOMAIN tasks
            /\ n \notin Range(formatTasks)
            /\ n \notin Range(lintTasks)
            /\ n \notin DepsOf("format")
            /\ n \notin DepsOf("lint")

C1_Witness ==
    /\ Defined
    /\ "lint-go" \in NameSet(opts)
    /\ "format-yaml" \in NameSet(opts)
    /\ "lint-yaml" \in DepsOf("lint")

\* C2: DefineTasks() without options registers exactly the eleven tasks;
\* format depends on exactly the three format leaves and check on exactly
\* lint and test.
C2_DefaultRegistration ==
    (Defined /\ opts = <<>>) =>
        /\ ~panicked
        /\ DOMAIN tasks = LeafNames \cup MetaNames
        /\ Cardinality(DOMAIN tasks) = 11
        /\ Len(tasks["format"].deps) = 3
        /\ DepsOf("format") = {"format-go", "format-markdown", "format-yaml"}
        /\ Len(tasks["check"].deps) = 2
        /\ DepsOf("check") = {"lint", "test"}

C2_Witness ==
    /\ Defined
    /\ opts = <<>>
    /\ "format-yaml" \in DepsOf("format")

\* C3: after DefineTasks the dependency list of format (lint) is exactly the
\* format (lint) leaves that were not excluded, and so is the bucket; format
\* and lint are registered, without a panic, also when nothing is left.
C3_BucketsAreTheNonExcluded ==
    Defined =>
        /\ ~panicked
        /\ {"format", "lint"} \subseteq DOMAIN tasks
        /\ DepsOf("format") = FormatLeaves \ NameSet(opts)
        /\ DepsOf("lint") = LintLeaves \ NameSet(opts)
        /\ Range(formatTasks) = FormatLeaves \ NameSet(opts)
        /\ Range(lintTasks) = LintLeaves \ NameSet(opts)
        /\ Len(tasks["format"].deps) = Cardinality(FormatLeaves \ NameSet(opts))
        /\ Len(tasks["lint"].deps) = Cardinality(LintLeaves \ NameSet(opts))
        /\ (opts = <<ExcludeTasks(<<"lint-markdown", "format-yaml">>)>> =>
                /\ DepsOf("lint") = {"lint-go", "lint-yaml"}
                /\ DepsOf("format") = {"format-go", "format-markdown"})

C3_Witness ==
    /\ Defined
    /\ FormatLeaves \subseteq NameSet(opts)
    /\ "format" \in DOMAIN tasks
    /\ tasks["format"].deps = <<>>
    /\ DepsOf("lint") = LintLeaves

\* C4: names that are no leaf task change nothing: the registry and the
\* buckets are those of the same options without these names, and there is
\* no panic.
C4_UnknownNamesIgnored ==
    Defined =>
        LET r == DefineTasksResult(StripNonLeaves(opts), statOk).reg IN
            /\ ~panicked
            /\ tasks = r.tasks
            /\ formatTasks = r.formatTasks
            /\ lintTasks = r.lintTasks
            /\ generateTasks = r.generateTasks

C4_Witness ==
    /\ Defined
    /\ {"lint", "lint-toml", "lint-markdown"} \subseteq NameSet(opts)
    /\ "lint-go" \in DOMAIN tasks

\* C5: the resolved path is that of the last ArtifactsPath option ("out"
\* without one), the resolved exclusions are the union of the names of the
\* ExcludeTasks options, and the registration is that of this set of names
\* passed once, each name once.
C5_OptionsFold ==
    Defined =>
        LET r == DefineTasksResult(<<ExcludeTasks(SetToSeq(NameSet(opts)))>>, statOk).reg IN
            /\ conf.artifactsPath = LastPath(opts)
            /\ Range(conf.excludeTasks) = NameSet(opts)
            /\ tasks = r.tasks
            /\ formatTasks = r.formatTasks
            /\ lintTasks = r.lintTasks
            /\ generateTasks = r.generateTasks

C5_Witness ==
    /\ Defined
    /\ Len(opts) = 2
    /\ opts[1].kind = "excludeTasks"
    /\ opts[2].kind = "excludeTasks"
    /\ opts[1].tasks = <<"lint-yaml", "lint-go">>
    /\ opts[2].tasks = <<"lint-go">>

C10_CheckClosure ==
    Defined =>
        /\ \A n \in DOMAIN tasks : n \notin Closure(n)
        /\ \A n \in (LeafNames \cup {"test"}) \cap DOMAIN tasks : tasks[n].deps = <<>>
        /\ Closure("check") = {"lint", "test"} \cup (LintLeaves \ NameSet(opts))
        /\ Closure("check") \cap ({"format", "generate"} \cup FormatLeaves) = {}

C10_Witness ==
    /\ Defined
    /\ "lint-yaml" \in NameSet(opts)
    /\ "format-yaml" \in DOMAIN tasks
    /\ "lint-go" \in Closure("check")

\* The events of the last run that are calls of cmd.Exec.
ExecsOf(run) == {i \in 1..Len(run.log) : run.log[i].op = "Exec"}

TestRan == lastRun.task = "test"

\* C6: the test action creates the resolved artifactsPath and has the
\* coverage written to coverage.txt in that same directory: out/coverage.txt
\* without options (and then no task is excluded), dist/coverage.txt with
\* ArtifactsPath("dist").
C6_CoverageUnderArtifactsPath ==
    /\ (Defined /\ opts = <<>>) =>
            /\ conf.artifactsPath = <<"out">>
            /\ conf.excludeTasks = <<>>
            /\ LeafNames \subseteq DOMAIN tasks
    /\ TestRan =>
            /\ lastRun.log[1].op = "MkdirAll"
            /\ lastRun.log[1].path = LastPath(opts)
            /\ lastRun.log[1].ok => Resolve(lastRun.log[1].path) \in dirs
            /\ \A i \in ExecsOf(lastRun) :
                 lastRun.log[i].cmd =
                     "go test -coverprofile="
                     \o PathString(Resolve(lastRun.log[1].path) \o <<"coverage.txt">>)
                     \o " -covermode=atomic -v -timeout=20m ./..."
            /\ \A i \in ExecsOf(lastRun) :
                 /\ opts = <<>> =>
                      lastRun.log[i].cmd =
                          "go test -coverprofile=out/coverage.txt -covermode=atomic -v -timeout=20m ./..."
                 /\ opts = <<ArtifactsPath(<<"dist">>)>> =>
                      lastRun.log[i].cmd =
                          "go test -coverprofile=dist/coverage.txt -covermode=atomic -v -timeout=20m ./..."

C6_Witness ==
    /\ TestRan
    /\ opts = <<ArtifactsPath(<<"dist">>)>>
    /\ lastRun.log[1].ok
    /\ ExecsOf(lastRun) = {2}
    /\ <<"dist">> \in dirs

GoFormatCommand(targets) ==
    "go run github.com/golangci/golangci-lint/cmd/golangci-lint@verGolangCILint"
    \o " run --fix --timeout=20m " \o targets

GoLintCommand(targets) ==
    "go run github.com/golangci/golangci-lint/cmd/golangci-lint@verGolangCILint"
    \o " run --timeout=20m " \o targets

\* The target list that follows from the probe DefineTasks made.
ProbedTargets == IF statOk THEN "./... ./build" ELSE "./..."

C8_TargetsFollowTheProbe ==
    Defined =>
        /\ golangciTargets = (IF statOk THEN <<"./...", "./build">> ELSE <<"./...">>)
        /\ lastRun.task = "format-go" =>
               lastRun.log = <<ExecEvent(GoFormatCommand(ProbedTargets), lastRun.log[1].ok)>>
        /\ lastRun.task = "lint-go" =>
               lastRun.log = <<ExecEvent(GoLintCommand(ProbedTargets), lastRun.log[1].ok)>>

C8_ProbedOnceAtDefine ==
    /\ (pc = "setup" /\ pc' = "defined") => (statOk' = (Marker \in files))
    /\ pc = "defined" =>
           /\ pc' = "defined"
           /\ statOk' = statOk
           /\ golangciTargets' = golangciTargets

\* C8: the targets of format-go and lint-go are decided by the one probe for
\* build/go.mod that DefineTasks makes: "./... ./build" if the file existed
\* then, "./..." otherwise, the same for both tasks, whatever becomes of the
\* file afterwards.
C8_GoTargetsProbedOnce == []C8_TargetsFollowTheProbe /\ [][C8_ProbedOnceAtDefine]_vars

C8_Witness ==
    /\ lastRun.task = "lint-go"
    /\ statOk
    /\ Marker \notin files
    /\ lastRun.log[1].cmd = GoLintCommand("./... ./build")

\* C9: a run of the test action calls os.MkdirAll first; if that fails the
\* task is marked failed by a.Errorf and no command is run, and nothing but
\* a.Errorf ends the action; if it succeeds, as it does on a directory that
\* exists, the command is run exactly once, after it.
C9_MkdirThenTest ==
    TestRan =>
        /\ lastRun.log[1].op = "MkdirAll"
        /\ \A i \in 1..Len(lastRun.log) : lastRun.log[i].op \in {"MkdirAll", "Errorf", "Exec"}
        /\ lastRun.log[1].existed => lastRun.log[1].ok
        /\ ~lastRun.log[1].ok =>
               /\ Failed(lastRun)
               /\ lastRun.log = <<lastRun.log[1], ErrorfEvent>>
               /\ ExecsOf(lastRun) = {}
        /\ lastRun.log[1].ok => ExecsOf(lastRun) = {2} /\ Len(lastRun.log) = 2
        /\ pc = "defined" /\ ENABLED RunTest

C9_Witness ==
    /\ TestRan
    /\ ~lastRun.log[1].ok
    /\ Failed(lastRun)
    /\ conf.artifactsPath = <<"dist", "cov">>
    /\ <<"dist">> \in dirs

====
